---- MODULE Spec2Model ----
(***************************************************************************)
(* Model of the deal-update watcher of deals/module/dealwatcher:           *)
(* the subscription registry (Subscribe / Unsubscribe under dw.lock), the  *)
(* background goroutine of startDaemon (initial connection, select loop,   *)
(* reconnect loop, fanout, deferred cleanup) and Close (closeLock, closed, *)
(* closeCancel, closeFinished).                                            *)
(***************************************************************************)
EXTENDS Integers, Sequences, FiniteSets, TLC

\* ---- bounds -------------------------------------------------------------
NumChans == 2
NumIds == 1
NumClosers == 2
MaxConns == 2
ChanCap == 1

\* ---- values -------------------------------------------------------------
\* cid.Undef: the ProposalCid of the zero-valued DealInfo a receive on a
\* closed channel yields.
Undef == 0

Chans == 1 .. NumChans

RealIds == 1 .. NumIds

Ids == {Undef} \cup RealIds

Closers == 1 .. NumClosers

Conns == 1 .. MaxConns

Outcomes == {"ok", "cbErr", "updErr"}

\* Capacity of a subscriber's channel: channel 1 is unbuffered, the others
\* hold ChanCap signals.
Cap(ch) == IF ch = 1 THEN 0 ELSE ChanCap

VARIABLES
  subs,          \* dw.subs: id -> [ok: key present, list: the slice]
  lock,          \* dw.lock: "free" or "daemon"
  res,           \* the last registry call that returned: [op, err]
  buf,           \* number of signals buffered in each subscriber channel
  waiting,       \* a receiver is parked on the channel
  fan,           \* per channel, what the running fanout did to it
  dpc,           \* position of the background goroutine
  di,            \* di.ProposalCid of the goroutine
  ok,            \* ok of "di, ok := <-updates"
  fsubs,         \* the slice "subs" read at line 168
  idx,           \* position of the range loop of line 174
  cls,           \* the goroutine's cls variable: a connection, 0 for nil
  streamOpen,    \* the channel held in "updates" is not closed
  conn,          \* per client: "none", "leaked", "live", "cleaned", "cleanedTwice"
  closeLock,     \* dw.closeLock: 0 when free, else the Close call holding it
  closed,        \* dw.closed
  ctxCancelled,  \* dw.closeCtx is cancelled
  closeFinished, \* dw.closeFinished is closed
  cpc,           \* position of each Close call
  ranShutdown    \* the Close calls that ran closeCancel and waited

vars == <<subs, lock, res, buf, waiting, fan, dpc, di, ok, fsubs, idx, cls,
          streamOpen, conn, closeLock, closed, ctxCancelled, closeFinished,
          cpc, ranShutdown>>

regVars == <<subs, res>>

chanVars == <<buf, waiting>>

daemonVars == <<lock, fan, dpc, di, ok, fsubs, idx, cls, streamOpen, conn, closeFinished>>

closeVars == <<closeLock, closed, ctxCancelled, cpc, ranShutdown>>

\* ---- helpers ------------------------------------------------------------
Range(s) == {s[i] : i \in 1 .. Len(s)}

NoFan == [ch \in Chans |-> "none"]

\* Index of the first occurrence of ch in s; 0 when there is none (the
\* code's idx == -1).
IndexOf(s, ch) ==
  IF \E i \in 1 .. Len(s) : s[i] = ch
    THEN CHOOSE i \in 1 .. Len(s) : s[i] = ch /\ \A j \in 1 .. (i - 1) : s[j] # ch
    ELSE 0

\* Mutant of SwapRemove: the slice is truncated without moving the last element.
SwapRemove_DropLast(s, i) == SubSeq(s, 1, Len(s) - 1)

\* subs[idx] = subs[len(subs)-1]; subs = subs[:len(subs)-1]
SwapRemove(s, i) == SubSeq([s EXCEPT ![i] = s[Len(s)]], 1, Len(s) - 1)

\* A non-blocking send succeeds when a receiver is parked or the buffer has room.
CanAccept(ch) == waiting[ch] \/ buf[ch] < Cap(ch)

\* ---- New ----------------------------------------------------------------
Init ==
  /\ subs = [id \in Ids |-> [ok |-> FALSE, list |-> <<>>]]
  /\ lock = "free"
  /\ res = [op |-> "none", err |-> "nil"]
  /\ buf = [ch \in Chans |-> 0]
  /\ waiting = [ch \in Chans |-> FALSE]
  /\ fan = NoFan
  /\ dpc = "start"
  /\ di = Undef
  /\ ok = FALSE
  /\ fsubs = <<>>
  /\ idx = 0
  /\ cls = 0
  /\ streamOpen = FALSE
  /\ conn = [c \in Conns |-> "none"]
  /\ closeLock = 0
  /\ closed = FALSE
  /\ ctxCancelled = FALSE
  /\ closeFinished = FALSE
  /\ cpc = [p \in Closers |-> "idle"]
  /\ ranShutdown = {}

\* ---- Subscription registry ------------------------------------------------
\* Mutant of Subscribe: the scan for an active subscription is missing.
Subscribe_NoDupCheck(ch, id) ==
  /\ lock = "free"
  /\ subs' = [subs EXCEPT ![id] = [ok |-> TRUE, list |-> Append(@.list, ch)]]
  /\ res' = [op |-> "Subscribe", err |-> "nil"]
  /\ UNCHANGED <<chanVars, daemonVars, closeVars>>

\* Mutant of Subscribe: the call also takes dw.closeLock.
Subscribe_UnderCloseLock(ch, id) ==
  /\ lock = "free"
  /\ closeLock = 0
  /\ IF \E i \in 1 .. Len(subs[id].list) : subs[id].list[i] = ch
       THEN /\ res' = [op |-> "Subscribe", err |-> "ErrActiveSubscription"]
            /\ UNCHANGED subs
       ELSE /\ subs' = [subs EXCEPT ![id] = [ok |-> TRUE, list |-> Append(@.list, ch)]]
            /\ res' = [op |-> "Subscribe", err |-> "nil"]
  /\ UNCHANGED <<chanVars, daemonVars, closeVars>>

Subscribe(ch, id) ==
  /\ lock = "free"
  /\ IF \E i \in 1 .. Len(subs[id].list) : subs[id].list[i] = ch
       THEN /\ res' = [op |-> "Subscribe", err |-> "ErrActiveSubscription"]
            /\ UNCHANGED subs
       ELSE /\ subs' = [subs EXCEPT ![id] = [ok |-> TRUE, list |-> Append(@.list, ch)]]
            /\ res' = [op |-> "Subscribe", err |-> "nil"]
  /\ UNCHANGED <<chanVars, daemonVars, closeVars>>

\* Mutant of Unsubscribe: a channel missing from an existing entry is not reported.
Unsubscribe_SilentMiss(ch, id) ==
  /\ lock = "free"
  /\ LET s == subs[id].list
         i == IndexOf(s, ch)
     IN IF ~subs[id].ok
          THEN /\ res' = [op |-> "Unsubscribe", err |-> "ErrNotFound"]
               /\ UNCHANGED subs
          ELSE IF i = 0
            THEN /\ res' = [op |-> "Unsubscribe", err |-> "nil"]
                 /\ UNCHANGED subs
            ELSE IF Len(s) = 1
              THEN /\ subs' = [subs EXCEPT ![id] = [ok |-> FALSE, list |-> <<>>]]
                   /\ res' = [op |-> "Unsubscribe", err |-> "nil"]
              ELSE /\ subs' = [subs EXCEPT ![id] = [ok |-> TRUE, list |-> SwapRemove(s, i)]]
                   /\ res' = [op |-> "Unsubscribe", err |-> "nil"]
  /\ UNCHANGED <<chanVars, daemonVars, closeVars>>

\* Mutant of Unsubscribe: dw.lock is not taken.
Unsubscribe_NoLock(ch, id) ==
  /\ LET s == subs[id].list
         i == IndexOf(s, ch)
     IN IF ~subs[id].ok
          THEN /\ res' = [op |-> "Unsubscribe", err |-> "ErrNotFound"]
               /\ UNCHANGED subs
          ELSE IF i = 0
            THEN /\ res' = [op |-> "Unsubscribe", err |-> "ErrNotFound"]
                 /\ UNCHANGED subs
            ELSE IF Len(s) = 1
              THEN /\ subs' = [subs EXCEPT ![id] = [ok |-> FALSE, list |-> <<>>]]
                   /\ res' = [op |-> "Unsubscribe", err |-> "nil"]
              ELSE /\ subs' = [subs EXCEPT ![id] = [ok |-> TRUE, list |-> SwapRemove(s, i)]]
                   /\ res' = [op |-> "Unsubscribe", err |-> "nil"]
  /\ UNCHANGED <<chanVars, daemonVars, closeVars>>

\* Mutant of Unsubscribe: the entry of the last subscriber is emptied, not deleted.
Unsubscribe_KeepEmpty(ch, id) ==
  /\ lock = "free"
  /\ LET s == subs[id].list
         i == IndexOf(s, ch)
     IN IF ~subs[id].ok
          THEN /\ res' = [op |-> "Unsubscribe", err |-> "ErrNotFound"]
               /\ UNCHANGED subs
          ELSE IF i = 0
            THEN /\ res' = [op |-> "Unsubscribe", err |-> "ErrNotFound"]
                 /\ UNCHANGED subs
            ELSE /\ subs' = [subs EXCEPT ![id] = [ok |-> TRUE, list |-> SwapRemove(s, i)]]
                 /\ res' = [op |-> "Unsubscribe", err |-> "nil"]
  /\ UNCHANGED <<chanVars, daemonVars, closeVars>>

Unsubscribe(ch, id) ==
  /\ lock = "free"
  /\ LET s == subs[id].list
         i == IndexOf(s, ch)
     IN IF ~subs[id].ok
          THEN /\ res' = [op |-> "Unsubscribe", err |-> "ErrNotFound"]
               /\ UNCHANGED subs
          ELSE IF i = 0
            THEN /\ res' = [op |-> "Unsubscribe", err |-> "ErrNotFound"]
                 /\ UNCHANGED subs
            ELSE IF Len(s) = 1
              THEN /\ subs' = [subs EXCEPT ![id] = [ok |-> FALSE, list |-> <<>>]]
                   /\ res' = [op |-> "Unsubscribe", err |-> "nil"]
              ELSE /\ subs' = [subs EXCEPT ![id] = [ok |-> TRUE, list |-> SwapRemove(s, i)]]
                   /\ res' = [op |-> "Unsubscribe", err |-> "nil"]
  /\ UNCHANGED <<chanVars, daemonVars, closeVars>>

\* ---- Subscribers' side of the channels ------------------------------------
\* A subscriber receives: it takes a buffered signal, or parks on the channel.
Recv(ch) ==
  /\ IF buf[ch] > 0
       THEN /\ buf' = [buf EXCEPT ![ch] = @ - 1]
            /\ UNCHANGED waiting
       ELSE /\ ~waiting[ch]
            /\ waiting' = [waiting EXCEPT ![ch] = TRUE]
            /\ UNCHANGED buf
  /\ UNCHANGED <<regVars, daemonVars, closeVars>>

\* ---- Upstream -------------------------------------------------------------
\* The stream held in "updates" closes: remote failure or context cancellation.
StreamClose ==
  /\ streamOpen
  /\ streamOpen' = FALSE
  /\ UNCHANGED <<regVars, chanVars, lock, fan, dpc, di, ok, fsubs, idx, cls, conn,
                 closeFinished, closeVars>>

CanAlloc == \E c \in Conns : conn[c] = "none"

FreshConn == CHOOSE c \in Conns : conn[c] = "none" /\ \A d \in 1 .. (c - 1) : conn[d] # "none"

\* createUpdateChan with outcome o: "cbErr" (dw.cb fails), "updErr" (the
\* client is built, ClientGetDealUpdates fails), "ok".
CreateUpdateChan(o) ==
  /\ o # "cbErr" => CanAlloc
  /\ conn' = IF o = "cbErr" THEN conn
             ELSE [conn EXCEPT ![FreshConn] = IF o = "ok" THEN "live" ELSE "leaked"]
  /\ cls' = IF o = "ok" THEN FreshConn ELSE 0
  /\ streamOpen' = (o = "ok")

\* cls(): the cleanup of the connection held in cls.
ClsConn == [conn EXCEPT ![cls] = IF @ = "live" THEN "cleaned" ELSE "cleanedTwice"]

\* ---- Background goroutine ---------------------------------------------------
\* Mutant of DaemonStart: a failed initial connection enters the reconnect loop.
DaemonStart_Retry(o) ==
  /\ dpc = "start"
  /\ CreateUpdateChan(o)
  /\ dpc' = IF o = "ok" THEN "select" ELSE "sleep"
  /\ UNCHANGED <<regVars, chanVars, lock, fan, di, ok, fsubs, idx, closeFinished, closeVars>>

DaemonStart(o) ==
  /\ dpc = "start"
  /\ CreateUpdateChan(o)
  /\ dpc' = IF o = "ok" THEN "select" ELSE "done"
  /\ UNCHANGED <<regVars, chanVars, lock, fan, di, ok, fsubs, idx, closeFinished, closeVars>>

DaemonSelectDone ==
  /\ dpc = "select"
  /\ ctxCancelled
  /\ dpc' = "deferCls"
  /\ UNCHANGED <<regVars, chanVars, lock, fan, di, ok, fsubs, idx, cls, streamOpen, conn,
                 closeFinished, closeVars>>

DaemonRecvUpdate(id) ==
  /\ dpc = "select"
  /\ streamOpen
  /\ di' = id
  /\ ok' = TRUE
  /\ dpc' = "lock"
  /\ UNCHANGED <<regVars, chanVars, lock, fan, fsubs, idx, cls, streamOpen, conn,
                 closeFinished, closeVars>>

DaemonRecvClosed ==
  /\ dpc = "select"
  /\ ~streamOpen
  /\ di' = Undef
  /\ ok' = FALSE
  /\ dpc' = "checkErr"
  /\ UNCHANGED <<regVars, chanVars, lock, fan, fsubs, idx, cls, streamOpen, conn,
                 closeFinished, closeVars>>

\* Mutant of DaemonCheckErr: the cls() of line 154 is missing.
DaemonCheckErr_NoCls ==
  /\ dpc = "checkErr"
  /\ dpc' = IF ctxCancelled THEN "deferCls" ELSE "retry"
  /\ UNCHANGED <<regVars, chanVars, lock, fan, di, ok, fsubs, idx, cls, streamOpen, conn,
                 closeFinished, closeVars>>

DaemonCheckErr ==
  /\ dpc = "checkErr"
  /\ IF ctxCancelled
       THEN /\ dpc' = "deferCls"
            /\ UNCHANGED conn
       ELSE IF cls = 0
         THEN /\ dpc' = "panic"
              /\ UNCHANGED conn
         ELSE /\ conn' = ClsConn
              /\ dpc' = "retry"
  /\ UNCHANGED <<regVars, chanVars, lock, fan, di, ok, fsubs, idx, cls, streamOpen,
                 closeFinished, closeVars>>

\* Mutant of DaemonRetry: the goroutine gives up after a failed reconnect.
DaemonRetry_GiveUp(o) ==
  /\ dpc = "retry"
  /\ CreateUpdateChan(o)
  /\ dpc' = IF o = "ok" THEN "lock" ELSE "deferClose"
  /\ UNCHANGED <<regVars, chanVars, lock, fan, di, ok, fsubs, idx, closeFinished, closeVars>>

DaemonRetry(o) ==
  /\ dpc = "retry"
  /\ CreateUpdateChan(o)
  /\ dpc' = IF o = "ok" THEN "lock" ELSE "sleep"
  /\ UNCHANGED <<regVars, chanVars, lock, fan, di, ok, fsubs, idx, closeFinished, closeVars>>

\* Mutant of DaemonSleep: the wait between two attempts observes the shutdown.
DaemonSleep_ObserveCtx ==
  /\ dpc = "sleep"
  /\ dpc' = IF ctxCancelled THEN "deferClose" ELSE "retry"
  /\ UNCHANGED <<regVars, chanVars, lock, fan, di, ok, fsubs, idx, cls, streamOpen, conn,
                 closeFinished, closeVars>>

DaemonSleep ==
  /\ dpc = "sleep"
  /\ dpc' = "retry"
  /\ UNCHANGED <<regVars, chanVars, lock, fan, di, ok, fsubs, idx, cls, streamOpen, conn,
                 closeFinished, closeVars>>

\* Mutant of DaemonLock: the subscribers are read without holding dw.lock.
DaemonLock_NoLock ==
  /\ dpc = "lock"
  /\ IF ~subs[di].ok
       THEN /\ dpc' = "select"
            /\ di' = Undef
            /\ ok' = FALSE
            /\ UNCHANGED <<fsubs, idx>>
       ELSE /\ fsubs' = subs[di].list
            /\ idx' = 1
            /\ dpc' = "send"
            /\ UNCHANGED <<di, ok>>
  /\ UNCHANGED <<regVars, chanVars, lock, fan, cls, streamOpen, conn, closeFinished, closeVars>>

DaemonLock ==
  /\ dpc = "lock"
  /\ lock = "free"
  /\ IF ~subs[di].ok
       THEN /\ dpc' = "select"
            /\ di' = Undef
            /\ ok' = FALSE
            /\ UNCHANGED <<lock, fsubs, idx>>
       ELSE /\ lock' = "daemon"
            /\ fsubs' = subs[di].list
            /\ idx' = 1
            /\ dpc' = "send"
            /\ UNCHANGED <<di, ok>>
  /\ UNCHANGED <<regVars, chanVars, fan, cls, streamOpen, conn, closeFinished, closeVars>>

\* Mutant of DaemonSend: the loop stops at the first channel that is full.
DaemonSend_BreakOnFull ==
  /\ dpc = "send"
  /\ idx <= Len(fsubs)
  /\ LET s == fsubs[idx]
     IN IF waiting[s]
          THEN /\ waiting' = [waiting EXCEPT ![s] = FALSE]
               /\ fan' = [fan EXCEPT ![s] = IF @ = "none" THEN "sent" ELSE "multi"]
               /\ idx' = idx + 1
               /\ UNCHANGED buf
          ELSE IF buf[s] < Cap(s)
            THEN /\ buf' = [buf EXCEPT ![s] = @ + 1]
                 /\ fan' = [fan EXCEPT ![s] = IF @ = "none" THEN "sent" ELSE "multi"]
                 /\ idx' = idx + 1
                 /\ UNCHANGED waiting
            ELSE /\ fan' = [fan EXCEPT ![s] = IF @ = "none" THEN "skipped" ELSE "multi"]
                 /\ idx' = Len(fsubs) + 1
                 /\ UNCHANGED <<buf, waiting>>
  /\ UNCHANGED <<regVars, lock, dpc, di, ok, fsubs, cls, streamOpen, conn, closeFinished, closeVars>>

\* Mutant of DaemonSend: a blocking send "s <- struct{}{}" without the default case.
DaemonSend_Blocking ==
  /\ dpc = "send"
  /\ idx <= Len(fsubs)
  /\ LET s == fsubs[idx]
     IN /\ waiting[s] \/ buf[s] < Cap(s)
        /\ IF waiting[s]
             THEN /\ waiting' = [waiting EXCEPT ![s] = FALSE]
                  /\ UNCHANGED buf
             ELSE /\ buf' = [buf EXCEPT ![s] = @ + 1]
                  /\ UNCHANGED waiting
        /\ fan' = [fan EXCEPT ![s] = IF @ = "none" THEN "sent" ELSE "multi"]
  /\ idx' = idx + 1
  /\ UNCHANGED <<regVars, lock, dpc, di, ok, fsubs, cls, streamOpen, conn, closeFinished, closeVars>>

DaemonSend ==
  /\ dpc = "send"
  /\ idx <= Len(fsubs)
  /\ LET s == fsubs[idx]
     IN IF waiting[s]
          THEN /\ waiting' = [waiting EXCEPT ![s] = FALSE]
               /\ fan' = [fan EXCEPT ![s] = IF @ = "none" THEN "sent" ELSE "multi"]
               /\ UNCHANGED buf
          ELSE IF buf[s] < Cap(s)
            THEN /\ buf' = [buf EXCEPT ![s] = @ + 1]
                 /\ fan' = [fan EXCEPT ![s] = IF @ = "none" THEN "sent" ELSE "multi"]
                 /\ UNCHANGED waiting
            ELSE /\ fan' = [fan EXCEPT ![s] = IF @ = "none" THEN "skipped" ELSE "multi"]
                 /\ UNCHANGED <<buf, waiting>>
  /\ idx' = idx + 1
  /\ UNCHANGED <<regVars, lock, dpc, di, ok, fsubs, cls, streamOpen, conn, closeFinished, closeVars>>

DaemonUnlock ==
  /\ dpc = "send"
  /\ idx > Len(fsubs)
  /\ lock' = "free"
  /\ fan' = NoFan
  /\ fsubs' = <<>>
  /\ idx' = 0
  /\ di' = Undef
  /\ ok' = FALSE
  /\ dpc' = "select"
  /\ UNCHANGED <<regVars, chanVars, cls, streamOpen, conn, closeFinished, closeVars>>

\* Mutant of DaemonDeferCls: the deferred cls() is missing.
DaemonDeferCls_Missing ==
  /\ dpc = "deferCls"
  /\ dpc' = "deferClose"
  /\ UNCHANGED <<regVars, chanVars, lock, fan, di, ok, fsubs, idx, cls, streamOpen, conn,
                 closeFinished, closeVars>>

DaemonDeferCls ==
  /\ dpc = "deferCls"
  /\ IF cls = 0
       THEN /\ dpc' = "panic"
            /\ UNCHANGED conn
       ELSE /\ conn' = ClsConn
            /\ dpc' = "deferClose"
  /\ UNCHANGED <<regVars, chanVars, lock, fan, di, ok, fsubs, idx, cls, streamOpen,
                 closeFinished, closeVars>>

DaemonDeferClose ==
  /\ dpc = "deferClose"
  /\ closeFinished' = TRUE
  /\ dpc' = "done"
  /\ UNCHANGED <<regVars, chanVars, lock, fan, di, ok, fsubs, idx, cls, streamOpen, conn, closeVars>>

\* ---- Close ----------------------------------------------------------------
CloseLock(p) ==
  /\ cpc[p] = "idle"
  /\ closeLock = 0
  /\ closeLock' = p
  /\ cpc' = [cpc EXCEPT ![p] = "check"]
  /\ UNCHANGED <<regVars, chanVars, daemonVars, closed, ctxCancelled, ranShutdown>>

\* Mutant of CloseCheck: the closed flag is not consulted.
CloseCheck_NoFlag(p) ==
  /\ cpc[p] = "check"
  /\ closed' = TRUE
  /\ ctxCancelled' = TRUE
  /\ ranShutdown' = ranShutdown \cup {p}
  /\ cpc' = [cpc EXCEPT ![p] = "wait"]
  /\ UNCHANGED closeLock
  /\ UNCHANGED <<regVars, chanVars, daemonVars>>

CloseCheck(p) ==
  /\ cpc[p] = "check"
  /\ IF closed
       THEN /\ closeLock' = 0
            /\ cpc' = [cpc EXCEPT ![p] = "returned"]
            /\ UNCHANGED <<closed, ctxCancelled, ranShutdown>>
       ELSE /\ closed' = TRUE
            /\ ctxCancelled' = TRUE
            /\ ranShutdown' = ranShutdown \cup {p}
            /\ cpc' = [cpc EXCEPT ![p] = "wait"]
            /\ UNCHANGED closeLock
  /\ UNCHANGED <<regVars, chanVars, daemonVars>>

\* Mutant of CloseWait: Close does not wait for dw.closeFinished.
CloseWait_NoWait(p) ==
  /\ cpc[p] = "wait"
  /\ closeLock' = 0
  /\ cpc' = [cpc EXCEPT ![p] = "returned"]
  /\ UNCHANGED <<regVars, chanVars, daemonVars, closed, ctxCancelled, ranShutdown>>

CloseWait(p) ==
  /\ cpc[p] = "wait"
  /\ closeFinished
  /\ closeLock' = 0
  /\ cpc' = [cpc EXCEPT ![p] = "returned"]
  /\ UNCHANGED <<regVars, chanVars, daemonVars, closed, ctxCancelled, ranShutdown>>

\* ---- Specification ----------------------------------------------------------
Next ==
  \/ \E ch \in Chans, id \in Ids : Subscribe(ch, id)
  \/ \E ch \in Chans, id \in Ids : Unsubscribe(ch, id)
  \/ \E ch \in Chans : Recv(ch)
  \/ StreamClose
  \/ \E o \in Outcomes : DaemonStart(o)
  \/ DaemonSelectDone
  \/ \E id \in RealIds : DaemonRecvUpdate(id)
  \/ DaemonRecvClosed
  \/ DaemonCheckErr
  \/ \E o \in Outcomes : DaemonRetry(o)
  \/ DaemonSleep
  \/ DaemonLock
  \/ DaemonSend
  \/ DaemonUnlock
  \/ DaemonDeferCls
  \/ DaemonDeferClose
  \/ \E p \in Closers : CloseLock(p)
  \/ \E p \in Closers : CloseCheck(p)
  \/ \E p \in Closers : CloseWait(p)

Spec == Init /\ [][Next]_vars

\* The Go scheduler runs every goroutine that can take a step: the steps of the
\* background goroutine that wait for nothing outside the program, and the
\* steps of the Close calls, are weakly fair. The select of line 143 picks at
\* random among its ready cases, so the shutdown case, ready again and again, is
\* taken in the end: it is strongly fair.
DaemonStep ==
  \/ DaemonCheckErr
  \/ DaemonSleep
  \/ DaemonLock
  \/ DaemonSend
  \/ DaemonUnlock
  \/ DaemonDeferCls
  \/ DaemonDeferClose

FairSpec ==
  /\ Spec
  /\ WF_vars(DaemonStep)
  /\ SF_vars(DaemonSelectDone)
  /\ \A p \in Closers : WF_vars(CloseCheck(p) \/ CloseWait(p))

TypeOK ==
  /\ lock \in {"free", "daemon"}
  /\ dpc \in {"start", "select", "checkErr", "retry", "sleep", "lock", "send",
              "deferCls", "deferClose", "done", "panic"}
  /\ \A ch \in Chans : buf[ch] \in 0 .. Cap(ch)

\* ---- Properties -------------------------------------------------------------
\* The pair (ch, id) is currently registered.
Registered(ch, id) == \E i \in 1 .. Len(subs[id].list) : subs[id].list[i] = ch

RegisteredAfter(ch, id) == \E i \in 1 .. Len(subs'[id].list) : subs'[id].list[i] = ch

NoDuplicates ==
  \A id \in Ids : \A i, j \in 1 .. Len(subs[id].list) :
    i # j => subs[id].list[i] # subs[id].list[j]

\* C1: Subscribe(ch, id) returns ErrActiveSubscription exactly when (ch, id) is
\* registered, and then leaves the registry unchanged; otherwise it returns nil
\* and appends ch to id's list, touching no other identifier. In every reachable
\* state no identifier's list holds the same channel twice.
C1_SubscribeUnique ==
  /\ []NoDuplicates
  /\ [][\A ch \in Chans, id \in Ids :
          Subscribe(ch, id) =>
            /\ res'.op = "Subscribe"
            /\ (res'.err = "ErrActiveSubscription") <=> Registered(ch, id)
            /\ Registered(ch, id) => subs' = subs
            /\ ~Registered(ch, id) =>
                 /\ res'.err = "nil"
                 /\ subs'[id].ok
                 /\ subs'[id].list = Append(subs[id].list, ch)
                 /\ \A o \in Ids \ {id} : subs'[o] = subs[o]]_vars

\* A duplicate Subscribe was rejected while an identifier has two subscribers.
C1_Witness ==
  /\ res = [op |-> "Subscribe", err |-> "ErrActiveSubscription"]
  /\ \E id \in Ids : Len(subs[id].list) >= 2

\* C2: Unsubscribe(ch, id) returns ErrNotFound exactly when (ch, id) is not
\* registered (no entry for id, or an entry without ch), and then the registry
\* is unchanged; when the pair is registered it returns nil.
C2_UnsubscribeNotFound ==
  [][\A ch \in Chans, id \in Ids :
       Unsubscribe(ch, id) =>
         /\ res'.op = "Unsubscribe"
         /\ (res'.err = "ErrNotFound") <=> ~Registered(ch, id)
         /\ ~Registered(ch, id) => subs' = subs
         /\ Registered(ch, id) => res'.err = "nil"]_vars

\* An Unsubscribe failed while some identifier has an entry that lacks a channel.
C2_Witness ==
  /\ res = [op |-> "Unsubscribe", err |-> "ErrNotFound"]
  /\ \E id \in Ids, ch \in Chans : subs[id].ok /\ ~Registered(ch, id)

\* C3: a successful Unsubscribe(ch, id) removes exactly the pair (ch, id): the
\* other channels of id stay registered for id, the entries of every other
\* identifier are unchanged, and ch stays registered wherever else it was.
C3_UnsubscribeFrame ==
  [][\A ch \in Chans, id \in Ids :
       (Unsubscribe(ch, id) /\ Registered(ch, id)) =>
         /\ ~RegisteredAfter(ch, id)
         /\ \A c \in Chans \ {ch} : RegisteredAfter(c, id) <=> Registered(c, id)
         /\ Len(subs'[id].list) = Len(subs[id].list) - 1
         /\ \A o \in Ids \ {id} : subs'[o] = subs[o]]_vars

\* An Unsubscribe succeeded; a channel is still registered for two identifiers
\* and some identifier has a subscriber left.
C3_Witness ==
  /\ res = [op |-> "Unsubscribe", err |-> "nil"]
  /\ \E ch \in Chans, id1, id2 \in Ids :
       id1 # id2 /\ Registered(ch, id1) /\ Registered(ch, id2)

\* A signal is delivered to ch in this step: handed to a parked receiver or buffered.
Signalled(ch) == (waiting[ch] /\ ~waiting'[ch]) \/ buf'[ch] = buf[ch] + 1

\* A send to ch is attempted in this step.
Attempted(ch) == fan'[ch] # fan[ch] /\ fan'[ch] # "none"

\* The range loop of the fanout has passed the last subscriber.
FanoutComplete == dpc = "send" /\ idx > Len(fsubs)

\* C4: in the fanout of an update record for X, a send to a channel that can
\* accept a value delivers exactly one signal to it and touches no other channel,
\* a send to a full channel leaves every channel as it is, and when the loop is
\* over every channel registered for X has been attempted exactly once, whatever
\* the state of the other channels, and no other channel has been attempted.
C4_Fanout ==
  /\ [](FanoutComplete /\ ok =>
          \A ch \in Chans :
            /\ Registered(ch, di) => fan[ch] \in {"sent", "skipped"}
            /\ ~Registered(ch, di) => fan[ch] = "none")
  /\ [][(DaemonSend /\ ok) =>
          LET s == fsubs[idx]
          IN /\ Registered(s, di)
             /\ CanAccept(s) => (Signalled(s) /\ fan'[s] = "sent")
             /\ ~CanAccept(s) => (buf'[s] = buf[s] /\ waiting'[s] = waiting[s]
                                   /\ fan'[s] = "skipped")
             /\ \A c \in Chans \ {s} :
                  buf'[c] = buf[c] /\ waiting'[c] = waiting[c] /\ fan'[c] = fan[c]]_vars

\* The fanout of an update is over: one subscriber was full and was skipped,
\* another one got its signal.
C4_Witness ==
  /\ FanoutComplete
  /\ ok
  /\ \E c1, c2 \in Chans : fan[c1] = "skipped" /\ fan[c2] = "sent"

\* C5: the fanout never waits on a subscriber: once the goroutine has received an
\* update record it always gets back to the select of line 143, ready for the
\* next record or the shutdown signal, even if no subscriber ever receives.
C5_FanoutNeverStalls == (dpc \in {"lock", "send"} /\ ok) ~> (dpc = "select")

\* The fanout of an update is over and every one of its (two or more)
\* subscribers was full.
C5_Witness ==
  /\ FanoutComplete
  /\ ok
  /\ Len(fsubs) >= 2
  /\ \A i \in 1 .. Len(fsubs) : fan[fsubs[i]] = "skipped"

\* C6: a send is attempted, and a signal delivered, only to a channel that is
\* registered at that moment for the identifier of the record being fanned out:
\* a pair removed by Unsubscribe, and not added again, gets nothing from an
\* update for its identifier, and an identifier without an entry causes no
\* attempt at all.
C6_NoSignalAfterUnsubscribe ==
  [][\A ch \in Chans :
       (Signalled(ch) \/ Attempted(ch)) =>
         (dpc = "send" /\ subs[di].ok /\ Registered(ch, di))]_vars

\* The last registry call is a successful Unsubscribe, and an update for an
\* identifier that has no entry any more, while its former channel is still
\* registered elsewhere, has been fanned out to nobody.
C6_Witness ==
  /\ res = [op |-> "Unsubscribe", err |-> "nil"]
  /\ dpc = "lock"
  /\ ok
  /\ ~subs[di].ok
  /\ \E ch \in Chans, id \in Ids : Registered(ch, id)

C8_CloseReturnsAfterCleanup ==
  /\ (\E p \in Closers : cpc[p] = "returned") => closeFinished
  /\ closeFinished =>
       /\ dpc = "done"
       /\ cls \in Conns
       /\ conn[cls] = "cleaned"
       /\ \A c \in Conns : conn[c] \notin {"live", "cleanedTwice"}

\* A Close call has returned after a reconnect: the broken connection and the
\* one held last are both cleaned up.
C8_Witness ==
  /\ \E p \in Closers : cpc[p] = "returned"
  /\ cls \in Conns
  /\ conn[cls] = "cleaned"
  /\ \E c \in Conns \ {cls} : conn[c] = "cleaned"

\* C9: whatever the reason the background goroutine exits, it has closed
\* dw.closeFinished, so that the Close call waiting on it is released.
C9_CompletionSignalledOnExit == dpc = "done" => closeFinished

\* C10: after a Close call has returned no send to a subscriber channel is
\* attempted and no signal is delivered.
C10_NoSignalAfterClose ==
  [][(\E p \in Closers : cpc[p] = "returned") =>
       \A ch \in Chans : ~Signalled(ch) /\ ~Attempted(ch)]_vars

\* A Close call has returned while a subscription is registered, its channel
\* could take a signal and the stale stream is still open.
C10_Witness ==
  /\ \E p \in Closers : cpc[p] = "returned"
  /\ streamOpen
  /\ \E ch \in Chans, id \in RealIds : Registered(ch, id) /\ CanAccept(ch)

\* The goroutine is in the reconnect loop of lines 155-163.
InReconnect == dpc \in {"retry", "sleep"}

\* C11: when the stream is seen closed and the context is not cancelled, the
\* goroutine cleans the broken connection up and enters the reconnect loop, in
\* which no connection is live; the loop is left only by a factory call that
\* succeeds, with a live connection and an open stream; the steps of the
\* reconnect change neither the registry nor anything returned to the callers of
\* Subscribe, Unsubscribe and Close; and an update fanned out afterwards reaches
\* the subscribers registered at that time.
C11_Reconnect ==
  /\ [](InReconnect => \A c \in Conns : conn[c] # "live")
  /\ [](FanoutComplete /\ ok =>
          \A ch \in Chans : Registered(ch, di) <=> fan[ch] \in {"sent", "skipped"})
  /\ [][(dpc = "checkErr" /\ ~ctxCancelled /\ dpc' # "checkErr") =>
          (dpc' = "retry" /\ cls \in Conns /\ conn'[cls] = "cleaned")]_vars
  /\ [][(InReconnect /\ ~InReconnect') =>
          (dpc' = "lock" /\ cls' \in Conns /\ conn'[cls'] = "live" /\ streamOpen')]_vars
  /\ [][(dpc \in {"checkErr", "retry", "sleep"} /\ dpc' # dpc) =>
          (subs' = subs /\ res' = res /\ cpc' = cpc /\ closed' = closed
           /\ buf' = buf /\ waiting' = waiting)]_vars

\* After a reconnect (one connection cleaned up, another one live) an update
\* has been fanned out and a subscriber got its signal.
C11_Witness ==
  /\ FanoutComplete
  /\ ok
  /\ cls \in Conns
  /\ conn[cls] = "live"
  /\ \E c \in Conns : conn[c] = "cleaned"
  /\ \E ch \in Chans : fan[ch] = "sent"

\* C12: once the shutdown context is cancelled the goroutine makes no reconnect
\* attempt: no call of the factory from the reconnect loop.
C12_NoReconnectAfterCancel ==
  [][ctxCancelled => ~(dpc = "retry" /\ dpc' # "retry")]_vars

\* The goroutine has exited on the failure of the initial createUpdateChan.
StartupFailed == dpc = "done" /\ cls = 0

\* C13: an initial createUpdateChan that fails makes the goroutine exit; from
\* then on it calls the factory no more, holds no lock, and no send to a
\* subscriber is attempted or delivered, before or after.
C13_StartupFailure ==
  /\ [](StartupFailed =>
          /\ lock = "free"
          /\ fan = NoFan
          /\ \A ch \in Chans : buf[ch] = 0
          /\ \A c \in Conns : conn[c] \notin {"live", "cleaned"})
  /\ [][(dpc = "start" /\ dpc' # "start" /\ cls' = 0) => dpc' = "done"]_vars
  /\ [][StartupFailed =>
          /\ StartupFailed'
          /\ conn' = conn
          /\ \A ch \in Chans : ~Signalled(ch) /\ ~Attempted(ch)]_vars

\* The startup failed while a subscription for a real identifier is registered
\* on a channel with a receiver parked on it.
C13_Witness ==
  /\ StartupFailed
  /\ \E ch \in Chans, id \in RealIds : Registered(ch, id) /\ waiting[ch]

\* C14: an identifier is a key of dw.subs exactly when its list is not empty.
C14_NoEmptyEntry == \A id \in Ids : subs[id].ok <=> Len(subs[id].list) >= 1

\* The last subscriber of an identifier has been removed while another
\* identifier keeps its entry.
C14_Witness ==
  /\ res = [op |-> "Unsubscribe", err |-> "nil"]
  /\ \E id1, id2 \in Ids : ~subs[id1].ok /\ subs[id2].ok

\* C15: dw.lock is held by the goroutine exactly during the send loop; in it the
\* slice being ranged over is the registry's list of the record's identifier,
\* the registry does not change, and at the end of the loop the channels that
\* were attempted are exactly the channels of that list.
C15_FanoutAtomic ==
  /\ [](lock = "daemon" <=> dpc = "send")
  /\ [](dpc = "send" => (subs[di].ok /\ fsubs = subs[di].list))
  /\ [](FanoutComplete => {ch \in Chans : fan[ch] # "none"} = Range(subs[di].list))
  /\ [][dpc = "send" => (subs' = subs /\ res' = res)]_vars

\* The goroutine is in the middle of a fanout to two subscribers.
C15_Witness ==
  /\ dpc = "send"
  /\ lock = "daemon"
  /\ Len(fsubs) >= 2
  /\ idx = 2

\* C16: the reconnect loop is left only by a factory call that succeeds, whether
\* or not the context is cancelled; while the goroutine is in it the completion
\* signal is not given and a Close call that waits keeps waiting; and once a
\* factory call has succeeded, a waiting Close call returns in the end, with the
\* goroutine terminated and the connection just obtained cleaned up.
C16_RetryIgnoresShutdown ==
  /\ [](InReconnect => ~closeFinished)
  /\ [][(InReconnect /\ ~InReconnect') =>
          (dpc' = "lock" /\ dpc = "retry" /\ cls' \in Conns /\ conn'[cls'] = "live")]_vars
  /\ [][\A p \in Closers :
          (InReconnect /\ cpc[p] = "wait") => cpc'[p] = "wait"]_vars
  /\ \A p \in Closers :
       (cpc[p] = "wait" /\ dpc = "lock" /\ ~ok)
         ~> (cpc[p] = "returned" /\ dpc = "done" /\ cls \in Conns /\ conn[cls] = "cleaned")

\* A Close call waits for the completion signal while the goroutine sleeps
\* between two failed reconnect attempts.
C16_Witness ==
  /\ \E p \in Closers : cpc[p] = "wait"
  /\ dpc = "sleep"
  /\ ctxCancelled

\* C17: a send to a channel is attempted, and a signal delivered, only in the
\* fanout of a record actually received from the stream (ok) whose identifier
\* the channel is registered for.
C17_NoSpuriousSignal ==
  [][\A ch \in Chans :
       (Signalled(ch) \/ Attempted(ch)) =>
         (dpc = "send" /\ ok /\ Registered(ch, di))]_vars

\* C18: dw.lock is held only by the goroutine in its send loop, which always
\* releases it; in every other state (a Close call waiting, the reconnect loop,
\* after a startup failure, after Close has returned) every Subscribe and
\* Unsubscribe call can complete, and its result depends on the registry alone.
C18_RegistryNeverHeldUp ==
  /\ [](lock = "daemon" => dpc = "send")
  /\ [](dpc # "send" =>
          \A ch \in Chans, id \in Ids :
            ENABLED Subscribe(ch, id) /\ ENABLED Unsubscribe(ch, id))
  /\ [][\A ch \in Chans, id \in Ids :
          /\ Subscribe(ch, id) =>
               res'.err = IF Registered(ch, id) THEN "ErrActiveSubscription" ELSE "nil"
          /\ Unsubscribe(ch, id) =>
               res'.err = IF Registered(ch, id) THEN "nil" ELSE "ErrNotFound"]_vars
  /\ (lock = "daemon") ~> (lock = "free")

\* A Subscribe has succeeded and its subscription is registered while a Close
\* call waits and the goroutine is in the reconnect loop.
C18_Witness ==
  /\ \E p \in Closers : cpc[p] = "wait"
  /\ InReconnect
  /\ res = [op |-> "Subscribe", err |-> "nil"]
  /\ \E ch \in Chans, id \in Ids : Registered(ch, id)

\* C19: at most one connection is live, and it is the one held in cls; no
\* connection is cleaned up twice; cls is never invoked while nil; no connection
\* is live while the factory is called for a replacement; and only a step of the
\* goroutine creates or cleans up a connection.
C19_ConnectionOwnership ==
  /\ [](Cardinality({c \in Conns : conn[c] = "live"}) <= 1)
  /\ [](\A c \in Conns : conn[c] = "live" => cls = c)
  /\ [](\A c \in Conns : conn[c] # "cleanedTwice")
  /\ [](dpc # "panic")
  /\ [](InReconnect => \A c \in Conns : conn[c] # "live")
  /\ [][conn' # conn => dpc' # dpc]_vars

\* After a reconnect: the broken connection is cleaned up, its replacement is
\* live and the goroutine is back at the select.
C19_Witness ==
  /\ dpc = "select"
  /\ cls \in Conns
  /\ conn[cls] = "live"
  /\ \E c \in Conns \ {cls} : conn[c] = "cleaned"

\* C20: when the goroutine has exited, every client the builder created has had
\* its close function invoked.
C20_NoClientLeak ==
  dpc = "done" => \A c \in Conns : conn[c] \in {"none", "cleaned"}

====
